---- MODULE Spec2Model ----
(***************************************************************************)
(* Model of the App Runner custom domain association resource               *)
(* (internal/service/apprunner/custom_domain_association.go): the Create,   *)
(* Read and Delete handlers, the resource data they act on, the remote      *)
(* control plane they call, and the status waiter they block on.            *)
(*                                                                          *)
(* Strings are sequences of one-character strings, so that the identity     *)
(* "<domain>,<service>" is really built and really split.                   *)
(***************************************************************************)
EXTENDS Integers, Sequences, FiniteSets, TLC

(* ------------------------------ bounds --------------------------------- *)
\* Time the waiters allow, and the pause between two probes, in ticks.
Deadline == 2
PollInterval == 1
\* Longest domain name and service identifier the codec is run on.
MaxStrLen == 2
\* Longest deadline and poll interval a waiter run on its own is given.
MaxDeadline == 2
MaxPoll == 2

(* --------------------------- value universes --------------------------- *)
Sep == ","
Domains == {<<"a">>, <<"b">>}
Services == {<<"s">>}
Targets == {"t1", "t2"}
Empty == <<>>
Nil == "nil"

\* Status values of types.CustomDomainAssociationStatus, plus the absence marker.
Absent == "absent"
Statuses == {"pending-creation", "active", "create-failed",
             "pending-deletion", "delete-failed"}

(* --------------------------- identity codec ---------------------------- *)
\* The two fields joined the wrong way round.
Encode_Swapped(a, b) == b \o <<Sep>> \o a

\* fmt.Sprintf("%s,%s", a, b)
Encode(a, b) == a \o <<Sep>> \o b

\* strings.Split(id, ","): the segments between the delimiters.
RECURSIVE SplitFrom(_, _, _)
SplitFrom(s, i, cur) ==
  IF i > Len(s) THEN <<cur>>
  ELSE IF s[i] = Sep THEN <<cur>> \o SplitFrom(s, i + 1, <<>>)
  ELSE SplitFrom(s, i + 1, Append(cur, s[i]))

Split(s) == SplitFrom(s, 1, <<>>)

\* CustomDomainAssociationParseID: exactly two non-empty segments, else an error.
CustomDomainAssociationParseID(id) ==
  LET parts == Split(id) IN
  IF Len(parts) = 2 /\ parts[1] # Empty /\ parts[2] # Empty
  THEN [ok |-> TRUE, domainName |-> parts[1], serviceArn |-> parts[2]]
  ELSE [ok |-> FALSE, domainName |-> Empty, serviceArn |-> Empty]

\* Identities a user may hand to the importer (ImportStatePassthroughContext).
ImportIds ==
  {Encode(dn, sa) : dn \in Domains, sa \in Services}
    \cup {<<"a">>, <<Sep, "s">>, <<"a", Sep>>, <<"a", Sep, "s", Sep, "s">>}

(* ------------------------------- state --------------------------------- *)
VARIABLES
  remote,   \* control plane: (domain, service) -> [status, www]
  d,        \* *schema.ResourceData of the resource
  pc,       \* position of the running handler
  req,      \* locals of the running handler: domainName, serviceArn, www
  out,      \* output of AssociateCustomDomain in the running Create
  w,        \* the waiter's loop variables
  result,   \* what the last handler returned
  calls,    \* remote calls issued by the running / last handler
  seen,     \* what the remote calls of the running / last handler answered
  script    \* the probe sequence fed to a waiter that is run on its own

vars == <<remote, d, pc, req, out, w, result, calls, seen, script>>

Keys == Domains \X Services

NoRecord == [status |-> Absent, www |-> FALSE]

NoData == [id |-> Empty, isNew |-> FALSE, dns_target |-> Nil,
           domain_name |-> Empty, enable_www_subdomain |-> FALSE,
           service_arn |-> Empty, status |-> Nil]

NoReq == [domainName |-> Empty, serviceArn |-> Empty, www |-> FALSE]
NoOut == [isNil |-> TRUE, domainName |-> Empty, serviceArn |-> Empty, dnsTarget |-> Nil]
NoCalls == [associate |-> 0, probe |-> 0, describe |-> 0, disassociate |-> 0]
NoSeen == [associate |-> Nil, describe |-> Nil, disassociate |-> Nil,
           absentAtStart |-> FALSE, idAtStart |-> Empty]
NoWaiter == [state |-> "Idle", kind |-> Nil, probes |-> 0, elapsed |-> 0,
             deadline |-> 0, poll |-> 0, last |-> Nil]
NoResult == [op |-> Nil, kind |-> Nil]

Init ==
  /\ remote = [k \in Keys |-> NoRecord]
  /\ d = NoData
  /\ pc = "idle"
  /\ req = NoReq
  /\ out = NoOut
  /\ w = NoWaiter
  /\ result = NoResult
  /\ calls = NoCalls
  /\ seen = NoSeen
  /\ script = <<>>

(* ------------------------ the remote control plane ---------------------- *)
RemoteStatus(k) == IF k \in Keys THEN remote[k].status ELSE Absent

\* apprunner.AssociateCustomDomain: a transport/API error, an empty output, or
\* an output naming a domain, a service and a DNS target.  A nil string
\* pointer in the output reads as "" (aws.ToString).
AssociateOutcomes ==
  {[err |-> "Remote", out |-> NoOut], [err |-> Nil, out |-> NoOut]}
    \cup {[err |-> Nil,
           out |-> [isNil |-> FALSE, domainName |-> rdn, serviceArn |-> rsa,
                    dnsTarget |-> t]] :
            rdn \in Domains \cup {Empty}, rsa \in Services \cup {Empty},
            t \in Targets}

AssociateAccepted(r) == r.err = Nil /\ ~r.out.isNil

\* Describe (FindCustomDomain): the record of the named domain, NotFoundError
\* when the control plane shows no record (also on a read that does not yet
\* see the record: the control plane is eventually consistent), RemoteError
\* otherwise.  A failed call carries no record.
NoDomain == [isNil |-> TRUE, domainName |-> Empty, www |-> FALSE, status |-> Nil]

DescribeOutcomes(k) ==
  {[cd |-> NoDomain, err |-> "Remote"], [cd |-> NoDomain, err |-> "NotFound"]}
    \cup (IF RemoteStatus(k) = Absent THEN {}
          ELSE {[cd |-> [isNil |-> FALSE, domainName |-> k[1],
                         www |-> remote[k].www, status |-> remote[k].status],
                 err |-> Nil]})

\* apprunner.DisassociateCustomDomain: NotFoundError when already absent,
\* accepted otherwise, RemoteError in either case.
DisassociateOutcomes(k) ==
  {"Remote"} \cup (IF RemoteStatus(k) = Absent THEN {"NotFound"} ELSE {Nil})

\* The remote lifecycle advances on its own between two observations.
RemoteProgress ==
  /\ \E k \in Keys :
       \/ /\ remote[k].status = "pending-creation"
          /\ \E s \in {"active", "create-failed"} :
               remote' = [remote EXCEPT ![k].status = s]
       \/ /\ remote[k].status = "pending-deletion"
          /\ remote' = [remote EXCEPT ![k].status = "delete-failed"]
       \/ /\ remote[k].status = "pending-deletion"
          /\ remote' = [remote EXCEPT ![k] = NoRecord]
  /\ UNCHANGED <<d, pc, req, out, w, result, calls, seen, script>>

(* ------------------------------ the waiter ------------------------------ *)
\* What one probe of the waiter can observe for k: a status, the absence
\* marker, or a failure of the call (NotFoundError or a transport error).
ProbeOutcomes(k) ==
  {[obs |-> Nil, err |-> "Remote"], [obs |-> Nil, err |-> "NotFound"],
   [obs |-> Absent, err |-> Nil]}
    \cup (IF RemoteStatus(k) = Absent THEN {}
          ELSE {[obs |-> remote[k].status, err |-> Nil]})

SuccessSet(kind) == IF kind = "create" THEN {"active"} ELSE {Absent}
FailureSet(kind) == IF kind = "create" THEN {"create-failed"} ELSE {"delete-failed"}

NewWaiter(kind, deadline, poll) ==
  [state |-> "Polling", kind |-> kind, probes |-> 0, elapsed |-> 0,
   deadline |-> deadline, poll |-> poll, last |-> Nil]

\* The loop without the deadline test on waking up: it probes once more
\* after a sleep that ran past the deadline.
WaiterStep_ProbeAfterDeadline(ws, o) ==
  LET probed == [ws EXCEPT !.probes = ws.probes + 1,
                           !.last = IF o.err = Nil THEN o.obs ELSE o.err] IN
  IF o.err = "Remote" THEN [probed EXCEPT !.state = "ProbeError"]
  ELSE IF o.err = "NotFound" THEN [probed EXCEPT !.state = "ProbeNotFound"]
  ELSE IF o.obs \in SuccessSet(ws.kind) THEN [probed EXCEPT !.state = "Succeeded"]
  ELSE IF o.obs \in FailureSet(ws.kind) THEN [probed EXCEPT !.state = "Failed"]
  ELSE IF ws.elapsed >= ws.deadline THEN [probed EXCEPT !.state = "TimedOut"]
  ELSE [probed EXCEPT !.elapsed = ws.elapsed + ws.poll]

\* The loop without the failure set: a failure status is polled like a
\* transient one.
WaiterStep_NoFailureSet(ws, o) ==
  LET probed == [ws EXCEPT !.probes = ws.probes + 1,
                           !.last = IF o.err = Nil THEN o.obs ELSE o.err]
      slept == ws.elapsed + ws.poll IN
  IF o.err = "Remote" THEN [probed EXCEPT !.state = "ProbeError"]
  ELSE IF o.err = "NotFound" THEN [probed EXCEPT !.state = "ProbeNotFound"]
  ELSE IF o.obs \in SuccessSet(ws.kind) THEN [probed EXCEPT !.state = "Succeeded"]
  ELSE IF ws.elapsed >= ws.deadline THEN [probed EXCEPT !.state = "TimedOut"]
  ELSE IF slept > ws.deadline
  THEN [probed EXCEPT !.state = "TimedOut", !.elapsed = slept]
  ELSE [probed EXCEPT !.elapsed = slept]

\* The loop retrying a probe that failed with a transport error.
WaiterStep_RetryOnError(ws, o) ==
  LET probed == [ws EXCEPT !.probes = ws.probes + 1,
                           !.last = IF o.err = Nil THEN o.obs ELSE o.err]
      slept == ws.elapsed + ws.poll IN
  IF o.err = "NotFound" THEN [probed EXCEPT !.state = "ProbeNotFound"]
  ELSE IF o.err = Nil /\ o.obs \in SuccessSet(ws.kind) THEN [probed EXCEPT !.state = "Succeeded"]
  ELSE IF o.err = Nil /\ o.obs \in FailureSet(ws.kind) THEN [probed EXCEPT !.state = "Failed"]
  ELSE IF ws.elapsed >= ws.deadline THEN [probed EXCEPT !.state = "TimedOut"]
  ELSE IF slept > ws.deadline
  THEN [probed EXCEPT !.state = "TimedOut", !.elapsed = slept]
  ELSE [probed EXCEPT !.elapsed = slept]

\* The loop without any deadline: it polls until an answer ends the wait.
WaiterStep_NoDeadline(ws, o) ==
  LET probed == [ws EXCEPT !.probes = ws.probes + 1,
                           !.last = IF o.err = Nil THEN o.obs ELSE o.err] IN
  IF o.err = "Remote" THEN [probed EXCEPT !.state = "ProbeError"]
  ELSE IF o.err = "NotFound" THEN [probed EXCEPT !.state = "ProbeNotFound"]
  ELSE IF o.obs \in SuccessSet(ws.kind) THEN [probed EXCEPT !.state = "Succeeded"]
  ELSE IF o.obs \in FailureSet(ws.kind) THEN [probed EXCEPT !.state = "Failed"]
  ELSE [probed EXCEPT !.elapsed = ws.elapsed + ws.poll]

\* One iteration of the waiter's loop, given what the probe answered: a
\* failed probe ends the wait at once; a success or failure observation ends
\* it; otherwise the wait times out if the deadline has passed, and if not
\* it sleeps for the poll interval.  A deadline exceeded during that sleep
\* ends the wait without a further probe.
WaiterStep(ws, o) ==
  LET probed == [ws EXCEPT !.probes = ws.probes + 1,
                           !.last = IF o.err = Nil THEN o.obs ELSE o.err]
      slept == ws.elapsed + ws.poll IN
  IF o.err = "Remote" THEN [probed EXCEPT !.state = "ProbeError"]
  ELSE IF o.err = "NotFound" THEN [probed EXCEPT !.state = "ProbeNotFound"]
  ELSE IF o.obs \in SuccessSet(ws.kind) THEN [probed EXCEPT !.state = "Succeeded"]
  ELSE IF o.obs \in FailureSet(ws.kind) THEN [probed EXCEPT !.state = "Failed"]
  ELSE IF ws.elapsed >= ws.deadline THEN [probed EXCEPT !.state = "TimedOut"]
  ELSE IF slept > ws.deadline
  THEN [probed EXCEPT !.state = "TimedOut", !.elapsed = slept]
  ELSE [probed EXCEPT !.elapsed = slept]

WaiterTerminal == {"Succeeded", "Failed", "TimedOut", "ProbeError", "ProbeNotFound"}

\* More probes than a wait within Deadline can issue: the cap on the probe
\* counter of a handler.
ProbeCap == Deadline + 2

(* ------------------------------ handlers -------------------------------- *)
ErrorKinds == {"AssociateError", "EmptyOutput", "MalformedIdentity",
               "PostCreateNotFound", "DisassociateError",
               "WaitFailed", "WaitTimedOut", "WaitProbeError", "WaitNotFound"}

WaitError(state) ==
  CASE state = "Failed" -> "WaitFailed"
    [] state = "TimedOut" -> "WaitTimedOut"
    [] state = "ProbeError" -> "WaitProbeError"
    [] state = "ProbeNotFound" -> "WaitNotFound"
    [] OTHER -> Nil

\* Read with the new-resource test inverted.
ReadAfterDescribe_InvertedNew(dd, serviceArn, desc) ==
  IF dd.isNew /\ desc.err = "NotFound"
  THEN [d |-> [dd EXCEPT !.id = Empty], kind |-> "Absent"]
  ELSE IF desc.cd.isNil
  THEN IF ~dd.isNew
       THEN [d |-> dd, kind |-> "PostCreateNotFound"]
       ELSE [d |-> [dd EXCEPT !.id = Empty], kind |-> "Absent"]
  ELSE [d |-> [dd EXCEPT !.domain_name = desc.cd.domainName,
                         !.enable_www_subdomain = desc.cd.www,
                         !.service_arn = serviceArn,
                         !.status = desc.cd.status],
        kind |-> "ok"]

\* Read without the new-resource test: a missing record always clears the id.
ReadAfterDescribe_NoNewCheck(dd, serviceArn, desc) ==
  IF desc.err = "NotFound" \/ desc.cd.isNil
  THEN [d |-> [dd EXCEPT !.id = Empty], kind |-> "Absent"]
  ELSE [d |-> [dd EXCEPT !.domain_name = desc.cd.domainName,
                         !.enable_www_subdomain = desc.cd.www,
                         !.service_arn = serviceArn,
                         !.status = desc.cd.status],
        kind |-> "ok"]

\* Read that also writes dns_target, which the Describe answer does not carry.
ReadAfterDescribe_WritesTarget(dd, serviceArn, desc) ==
  IF ~dd.isNew /\ desc.err = "NotFound"
  THEN [d |-> [dd EXCEPT !.id = Empty], kind |-> "Absent"]
  ELSE IF desc.cd.isNil
  THEN IF dd.isNew
       THEN [d |-> dd, kind |-> "PostCreateNotFound"]
       ELSE [d |-> [dd EXCEPT !.id = Empty], kind |-> "Absent"]
  ELSE [d |-> [dd EXCEPT !.dns_target = Nil,
                         !.domain_name = desc.cd.domainName,
                         !.enable_www_subdomain = desc.cd.www,
                         !.service_arn = serviceArn,
                         !.status = desc.cd.status],
        kind |-> "ok"]

\* resourceCustomDomainAssociationRead after FindCustomDomain has returned
\* (customDomain, err) = (desc.cd, desc.err): the resource data it leaves and
\* what it returns ("ok": the attributes were set; "Absent": the id was
\* cleared and nil returned; otherwise the error).
ReadAfterDescribe(dd, serviceArn, desc) ==
  IF ~dd.isNew /\ desc.err = "NotFound"
  THEN [d |-> [dd EXCEPT !.id = Empty], kind |-> "Absent"]
  ELSE IF desc.cd.isNil
  THEN IF dd.isNew
       THEN [d |-> dd, kind |-> "PostCreateNotFound"]
       ELSE [d |-> [dd EXCEPT !.id = Empty], kind |-> "Absent"]
  ELSE [d |-> [dd EXCEPT !.domain_name = desc.cd.domainName,
                         !.enable_www_subdomain = desc.cd.www,
                         !.service_arn = serviceArn,
                         !.status = desc.cd.status],
        kind |-> "ok"]

\* Read that calls Describe without testing the result of the id parse.
ReadBody_NoParseCheck(dd, op, c0, s0) ==
  LET p == CustomDomainAssociationParseID(dd.id) IN
  \E desc \in DescribeOutcomes(<<p.domainName, p.serviceArn>>) :
    LET r == ReadAfterDescribe(dd, p.serviceArn, desc) IN
    /\ d' = r.d
    /\ result' = [op |-> op, kind |-> r.kind]
    /\ calls' = [c0 EXCEPT !.describe = c0.describe + 1]
    /\ seen' = [s0 EXCEPT !.describe = IF desc.err = Nil THEN "found" ELSE desc.err]

\* The body of resourceCustomDomainAssociationRead on resource data dd,
\* returning to the caller as operation op; c0 and s0 are the calls issued
\* and the answers seen by the invocation so far.
ReadBody(dd, op, c0, s0) ==
  LET p == CustomDomainAssociationParseID(dd.id) IN
  IF ~p.ok
  THEN /\ d' = dd
       /\ result' = [op |-> op, kind |-> "MalformedIdentity"]
       /\ calls' = c0
       /\ seen' = s0
  ELSE \E desc \in DescribeOutcomes(<<p.domainName, p.serviceArn>>) :
         LET r == ReadAfterDescribe(dd, p.serviceArn, desc) IN
         /\ d' = r.d
         /\ result' = [op |-> op, kind |-> r.kind]
         /\ calls' = [c0 EXCEPT !.describe = c0.describe + 1]
         /\ seen' = [s0 EXCEPT !.describe = IF desc.err = Nil THEN "found" ELSE desc.err]

\* A refresh: Read on the stored resource, which is not a new resource.
Read ==
  /\ pc = "idle"
  /\ d.id # Empty
  /\ ReadBody([d EXCEPT !.isNew = FALSE], "Read", NoCalls,
              [NoSeen EXCEPT !.idAtStart = d.id])
  /\ req' = NoReq
  /\ out' = NoOut
  /\ w' = NoWaiter
  /\ UNCHANGED <<remote, pc, script>>

\* Create without the test for an empty output.
CreateAfterAssociate_NoNilCheck(dd, r) ==
  IF r.err # Nil THEN [d |-> dd, kind |-> "AssociateError"]
  ELSE [d |-> [dd EXCEPT !.id = Encode(r.out.domainName, r.out.serviceArn),
                         !.dns_target = r.out.dnsTarget],
        kind |-> Nil]

\* resourceCustomDomainAssociationCreate up to the start of the wait, given
\* the answer r of AssociateCustomDomain: the resource data it leaves, and
\* the error it returns (Nil: it goes on to wait).
CreateAfterAssociate(dd, r) ==
  IF r.err # Nil THEN [d |-> dd, kind |-> "AssociateError"]
  ELSE IF r.out.isNil THEN [d |-> dd, kind |-> "EmptyOutput"]
  ELSE [d |-> [dd EXCEPT !.id = Encode(r.out.domainName, r.out.serviceArn),
                         !.dns_target = r.out.dnsTarget],
        kind |-> Nil]

\* Create on new resource data holding the configuration (domain_name,
\* service_arn, enable_www_subdomain): the Associate call and what follows
\* it up to the first probe.
Create ==
  /\ pc = "idle"
  /\ d.id = Empty
  /\ \E dn \in Domains, sa \in Services, www \in BOOLEAN, r \in AssociateOutcomes :
       LET dd == [NoData EXCEPT !.isNew = TRUE, !.domain_name = dn,
                                !.service_arn = sa, !.enable_www_subdomain = www]
           c == CreateAfterAssociate(dd, r)
       IN
       /\ req' = [domainName |-> dn, serviceArn |-> sa, www |-> www]
       /\ out' = r.out
       /\ remote' = IF AssociateAccepted(r)
                    THEN [remote EXCEPT ![<<dn, sa>>] =
                            [status |-> "pending-creation", www |-> www]]
                    ELSE remote
       /\ d' = c.d
       /\ calls' = [NoCalls EXCEPT !.associate = 1]
       /\ seen' = [NoSeen EXCEPT !.associate =
                     IF r.err # Nil THEN r.err
                     ELSE IF r.out.isNil THEN "empty" ELSE "accepted"]
       /\ IF c.kind = Nil
          THEN /\ pc' = "create_wait"
               /\ w' = NewWaiter("create", Deadline, PollInterval)
               /\ result' = NoResult
          ELSE /\ pc' = "idle"
               /\ w' = NoWaiter
               /\ result' = [op |-> "Create", kind |-> c.kind]
  /\ UNCHANGED script

\* Create reading back after a wait that timed out.
CreateAfterWait_IgnoreTimeout(state) ==
  IF state \in {"Succeeded", "TimedOut"} THEN Nil ELSE WaitError(state)

\* What Create does with the waiter's outcome: Nil when it goes on to the
\* read-back, otherwise the error it returns.
CreateAfterWait(state) == IF state = "Succeeded" THEN Nil ELSE WaitError(state)

\* One probe of WaitCustomDomainAssociationCreated, and Create's return when
\* the wait ends in an error.
CreateWait ==
  /\ pc = "create_wait"
  /\ calls.probe < ProbeCap
  /\ \E o \in ProbeOutcomes(<<req.domainName, req.serviceArn>>) :
       LET ws == WaiterStep(w, o) IN
       /\ w' = ws
       /\ calls' = [calls EXCEPT !.probe = calls.probe + 1]
       /\ IF ws.state = "Polling"
          THEN UNCHANGED <<pc, result>>
          ELSE IF CreateAfterWait(ws.state) = Nil
          THEN pc' = "create_read" /\ UNCHANGED result
          ELSE /\ pc' = "idle"
               /\ result' = [op |-> "Create", kind |-> CreateAfterWait(ws.state)]
  /\ UNCHANGED <<remote, d, req, out, seen, script>>

\* The read-back that ends Create: Read on the new resource.
CreateRead ==
  /\ pc = "create_read"
  /\ ReadBody(d, "Create", calls, seen)
  /\ pc' = "idle"
  /\ UNCHANGED <<remote, req, out, w, script>>

\* Delete without the NotFound test on Disassociate.
DeleteAfterDisassociate_NoNotFound(err) ==
  IF err # Nil THEN "DisassociateError" ELSE Nil

\* Delete that waits for removal even when Disassociate reported NotFound.
DeleteAfterDisassociate_WaitAnyway(err) ==
  IF err = "NotFound" THEN Nil
  ELSE IF err # Nil THEN "DisassociateError"
  ELSE Nil

\* Delete that goes on to wait whatever error Disassociate returned.
DeleteAfterDisassociate_IgnoreError(err) ==
  IF err = "NotFound" THEN "ok" ELSE Nil

\* resourceCustomDomainAssociationDelete after DisassociateCustomDomain has
\* answered err: "ok" (return nil), an error, or Nil (go on to wait).
DeleteAfterDisassociate(err) ==
  IF err = "NotFound" THEN "ok"
  ELSE IF err # Nil THEN "DisassociateError"
  ELSE Nil

\* Delete of the stored resource up to the start of the wait.
Delete ==
  /\ pc = "idle"
  /\ d.id # Empty
  /\ LET p == CustomDomainAssociationParseID(d.id)
         k == <<p.domainName, p.serviceArn>>
     IN
     IF ~p.ok
     THEN /\ result' = [op |-> "Delete", kind |-> "MalformedIdentity"]
          /\ calls' = NoCalls
          /\ seen' = [NoSeen EXCEPT !.idAtStart = d.id]
          /\ req' = NoReq
          /\ w' = NoWaiter
          /\ UNCHANGED <<remote, pc>>
     ELSE \E err \in DisassociateOutcomes(k) :
            /\ req' = [domainName |-> p.domainName, serviceArn |-> p.serviceArn,
                       www |-> FALSE]
            /\ remote' = IF err = Nil
                         THEN [remote EXCEPT ![k].status = "pending-deletion"]
                         ELSE remote
            /\ calls' = [NoCalls EXCEPT !.disassociate = 1]
            /\ seen' = [NoSeen EXCEPT !.disassociate = IF err = Nil THEN "accepted" ELSE err,
                                      !.absentAtStart = (RemoteStatus(k) = Absent),
                                      !.idAtStart = d.id]
            /\ IF DeleteAfterDisassociate(err) = Nil
               THEN /\ pc' = "delete_wait"
                    /\ w' = NewWaiter("delete", Deadline, PollInterval)
                    /\ result' = NoResult
               ELSE /\ pc' = "idle"
                    /\ w' = NoWaiter
                    /\ result' = [op |-> "Delete", kind |-> DeleteAfterDisassociate(err)]
  /\ d' = [d EXCEPT !.isNew = FALSE]
  /\ out' = NoOut
  /\ UNCHANGED script

\* Delete without the NotFound test on the wait.
DeleteAfterWait_NoNotFound(state) ==
  IF state = "Succeeded" THEN "ok" ELSE WaitError(state)

\* Delete treating a wait that timed out as done.
DeleteAfterWait_TimeoutOk(state) ==
  IF state \in {"Succeeded", "ProbeNotFound", "TimedOut"} THEN "ok"
  ELSE WaitError(state)

\* What Delete returns for the waiter's outcome.
DeleteAfterWait(state) ==
  IF state = "Succeeded" THEN "ok"
  ELSE IF state = "ProbeNotFound" THEN "ok"
  ELSE WaitError(state)

\* One probe of WaitCustomDomainAssociationDeleted, and Delete's return when
\* the wait ends.
DeleteWait ==
  /\ pc = "delete_wait"
  /\ calls.probe < ProbeCap
  /\ \E o \in ProbeOutcomes(<<req.domainName, req.serviceArn>>) :
       LET ws == WaiterStep(w, o) IN
       /\ w' = ws
       /\ calls' = [calls EXCEPT !.probe = calls.probe + 1]
       /\ IF ws.state = "Polling"
          THEN UNCHANGED <<pc, result>>
          ELSE /\ pc' = "idle"
               /\ result' = [op |-> "Delete", kind |-> DeleteAfterWait(ws.state)]
  /\ UNCHANGED <<remote, d, req, out, seen, script>>

\* The importer stores the id it is handed, unchanged.
Import ==
  /\ pc = "idle"
  /\ d.id = Empty
  /\ \E id \in ImportIds : d' = [NoData EXCEPT !.id = id]
  /\ result' = NoResult
  /\ calls' = NoCalls
  /\ seen' = NoSeen
  /\ req' = NoReq
  /\ out' = NoOut
  /\ w' = NoWaiter
  /\ UNCHANGED <<remote, pc, script>>

\* The caller drops the resource from its state once Delete has returned nil.
Forget ==
  /\ pc = "idle"
  /\ d.id # Empty
  /\ result = [op |-> "Delete", kind |-> "ok"]
  /\ d' = NoData
  /\ result' = NoResult
  /\ calls' = NoCalls
  /\ seen' = NoSeen
  /\ req' = NoReq
  /\ out' = NoOut
  /\ w' = NoWaiter
  /\ UNCHANGED <<remote, pc, script>>

Next ==
  \/ Create
  \/ CreateWait
  \/ CreateRead
  \/ Read
  \/ Delete
  \/ DeleteWait
  \/ Import
  \/ Forget
  \/ RemoteProgress

Spec == Init /\ [][Next]_vars

\* A handler that has been called runs on: each remote call returns and the
\* handler takes its next step.  Nothing makes the remote side progress, and
\* nothing makes the caller call.
FairSpec ==
  Spec /\ WF_vars(CreateWait) /\ WF_vars(CreateRead) /\ WF_vars(DeleteWait)

(* ------------------------ the waiter on its own ------------------------- *)
\* What a probe of the sequence can answer.
ScriptOutcomes ==
  {[obs |-> o, err |-> Nil] : o \in Statuses \cup {Absent}}
    \cup {[obs |-> Nil, err |-> e] : e \in {"Remote", "NotFound"}}

\* Long enough for every probe a wait within MaxDeadline can issue.
ScriptLen == MaxDeadline + 1

InitWaiter ==
  /\ remote = [k \in Keys |-> NoRecord]
  /\ d = NoData
  /\ pc = "wait"
  /\ req = NoReq
  /\ out = NoOut
  /\ \E kind \in {"create", "delete"}, dl \in 1..MaxDeadline, pi \in 1..MaxPoll :
       w = NewWaiter(kind, dl, pi)
  /\ result = NoResult
  /\ calls = NoCalls
  /\ seen = NoSeen
  /\ script \in [1..ScriptLen -> ScriptOutcomes]

\* One iteration of the loop of a waiter run on the probe sequence.
WaiterProbe ==
  /\ pc = "wait"
  /\ w.probes < Len(script)
  /\ w' = WaiterStep(w, script[w.probes + 1])
  /\ calls' = [calls EXCEPT !.probe = calls.probe + 1]
  /\ pc' = IF w'.state = "Polling" THEN "wait" ELSE "waited"
  /\ UNCHANGED <<remote, d, req, out, result, seen, script>>

NextWaiter == WaiterProbe

SpecWaiter == InitWaiter /\ [][NextWaiter]_vars

(* ------------------------- the codec on its own ------------------------- *)
\* The strings the codec is run on: with and without the delimiter, empty or not.
CodecChars == {"a", "s", Sep}
CodecStrings == UNION {[1..n -> CodecChars] : n \in 0..MaxStrLen}

InitCodec ==
  /\ remote = [k \in Keys |-> NoRecord]
  /\ d = NoData
  /\ pc = "encode"
  /\ \E a \in CodecStrings, b \in CodecStrings :
       req = [domainName |-> a, serviceArn |-> b, www |-> FALSE]
  /\ out = NoOut
  /\ w = NoWaiter
  /\ result = NoResult
  /\ calls = NoCalls
  /\ seen = NoSeen
  /\ script = <<>>

\* The identity as Create builds it from two fields.
CodecEncode ==
  /\ pc = "encode"
  /\ d' = [d EXCEPT !.id = Encode(req.domainName, req.serviceArn)]
  /\ pc' = "decode"
  /\ UNCHANGED <<remote, req, out, w, result, calls, seen, script>>

\* The identity as Read and Delete take it apart.
CodecDecode ==
  /\ pc = "decode"
  /\ LET p == CustomDomainAssociationParseID(d.id) IN
       /\ out' = [isNil |-> ~p.ok, domainName |-> p.domainName,
                  serviceArn |-> p.serviceArn, dnsTarget |-> Nil]
       /\ result' = [op |-> "Decode",
                     kind |-> IF p.ok THEN "ok" ELSE "MalformedIdentity"]
  /\ pc' = "decoded"
  /\ UNCHANGED <<remote, d, req, w, calls, seen, script>>

NextCodec ==
  \/ CodecEncode
  \/ CodecDecode

SpecCodec == InitCodec /\ [][NextCodec]_vars

(* ------------------------------- claims --------------------------------- *)
WaitErrorKinds == {"WaitFailed", "WaitTimedOut", "WaitProbeError", "WaitNotFound"}
WellFormed(id) == CustomDomainAssociationParseID(id).ok
Returned(op) == pc = "idle" /\ result.op = op

\* C1: a Read (a refresh, or the read-back of Create) whose Describe failed
\* with a RemoteError returns an error and leaves the identity set.
C1_ReadSurfacesRemoteError ==
  (pc = "idle" /\ result.op \in {"Read", "Create"} /\ seen.describe = "Remote")
    => (result.kind \in ErrorKinds /\ d.id # Empty)

\* C2: a refresh of a well-formed id whose Describe answered NotFoundError
\* returns Absent: no error, and the identity is cleared.
C2_ReadNotFoundIsAbsent ==
  (Returned("Read") /\ WellFormed(seen.idAtStart) /\ seen.describe = "NotFound")
    => (result.kind = "Absent" /\ d.id = Empty)

C2_Witness ==
  /\ Returned("Read") /\ WellFormed(seen.idAtStart)
  /\ seen.describe = "NotFound" /\ result.kind = "Absent"

\* C3: when the read-back of Create, after a wait that Succeeded, gets
\* NotFoundError, Create returns PostCreateNotFound and the identity stays
\* the one recorded after Associate.
C3_PostCreateNotFound ==
  (Returned("Create") /\ seen.describe = "NotFound")
    => /\ w.state = "Succeeded"
       /\ result.kind = "PostCreateNotFound"
       /\ d.id = Encode(out.domainName, out.serviceArn)

C3_Witness ==
  /\ Returned("Create") /\ seen.describe = "NotFound"
  /\ w.state = "Succeeded" /\ result.kind = "PostCreateNotFound"

\* C4: when the creation wait ends in Failed, TimedOut or a probe error,
\* Create returns that error, the identity recorded after Associate stays,
\* and neither a read-back Describe nor a Disassociate is issued.
C4_WaitErrorKeepsIdentity ==
  (pc = "idle" /\ w.kind = "create" /\ w.state \in WaiterTerminal \ {"Succeeded"})
    => /\ result = [op |-> "Create", kind |-> WaitError(w.state)]
       /\ seen.associate = "accepted"
       /\ d.id = Encode(out.domainName, out.serviceArn)
       /\ d.dns_target = out.dnsTarget
       /\ calls.describe = 0
       /\ calls.disassociate = 0

C4_Witness ==
  /\ Returned("Create") /\ w.kind = "create" /\ w.state = "TimedOut"
  /\ result.kind = "WaitTimedOut" /\ d.id # Empty

\* C5: when Associate fails or returns no output, Create returns an error,
\* identity and dnsTarget stay unset, and no probe and no Describe is issued.
C5_AssociateErrorNoState ==
  (calls.associate = 1 /\ seen.associate \in {"Remote", "empty"})
    => /\ pc = "idle"
       /\ result.op = "Create" /\ result.kind \in {"AssociateError", "EmptyOutput"}
       /\ d.id = Empty
       /\ d.dns_target = Nil
       /\ calls.probe = 0
       /\ calls.describe = 0

C5_Witness ==
  /\ Returned("Create") /\ seen.associate = "empty"
  /\ result.kind = "EmptyOutput" /\ d.id = Empty

\* C6: once Associate is accepted, the identity Create records is
\* Encode(domainName, serviceIdentifier) of the arguments of Create.
C6_IdentityIsEncodeOfRequest ==
  (calls.associate = 1 /\ seen.associate = "accepted")
    => d.id = Encode(req.domainName, req.serviceArn)

\* C7: a Create that returns without error leaves status active, the
\* dnsTarget Associate returned, and the domain name, service identifier and
\* enableSubdomainAlias of the request.
C7_CreateYieldsRequestedAssociation ==
  (Returned("Create") /\ result.kind = "ok")
    => /\ d.status = "active"
       /\ d.dns_target = out.dnsTarget
       /\ d.domain_name = req.domainName
       /\ d.service_arn = req.serviceArn
       /\ d.enable_www_subdomain = req.www

\* C8: when Disassociate answers NotFoundError, Delete returns success at
\* once, and issues no probe.
C8_DisassociateNotFoundIsSuccess ==
  (seen.disassociate = "NotFound")
    => /\ pc = "idle"
       /\ result = [op |-> "Delete", kind |-> "ok"]
       /\ calls.probe = 0
       /\ calls.describe = 0

C8_Witness ==
  /\ Returned("Delete") /\ seen.disassociate = "NotFound"
  /\ result.kind = "ok" /\ calls.disassociate = 1

\* C9 as stated: every Delete of a well-formed id whose entity is absent on
\* the remote side returns success.
C9_DeleteOfAbsentAlwaysSucceeds ==
  (Returned("Delete") /\ WellFormed(seen.idAtStart) /\ seen.absentAtStart)
    => result.kind = "ok"

\* C9 as amended: every Delete of a well-formed id whose entity is absent on
\* the remote side returns success, unless its Disassociate call fails with a
\* RemoteError, which Delete then returns.
C9_DeleteOfAbsentSucceedsUnlessRemoteError ==
  (Returned("Delete") /\ WellFormed(seen.idAtStart) /\ seen.absentAtStart)
    => IF seen.disassociate = "Remote"
       THEN result.kind = "DisassociateError"
       ELSE result.kind = "ok"

C9_Witness ==
  /\ Returned("Delete") /\ WellFormed(seen.idAtStart) /\ seen.absentAtStart
  /\ seen.disassociate # "Remote" /\ result.kind = "ok"
  /\ d.id = seen.idAtStart

\* C10: after an accepted Disassociate, Delete runs the deletion wait, and a
\* NotFoundError raised during the wait makes Delete return success, as the
\* observation of absence does.
C10_NotFoundDuringWaitIsSuccess ==
  /\ (seen.disassociate = "accepted")
       => (w.kind = "delete" /\ (pc = "delete_wait" \/ calls.probe >= 1))
  /\ (pc = "idle" /\ w.kind = "delete" /\ w.state \in {"ProbeNotFound", "Succeeded"})
       => result = [op |-> "Delete", kind |-> "ok"]

C10_Witness ==
  /\ Returned("Delete") /\ seen.disassociate = "accepted"
  /\ w.state = "ProbeNotFound" /\ result.kind = "ok"

\* C11: when Disassociate fails with an error other than NotFoundError,
\* Delete returns an error and issues no probe; when the deletion wait ends
\* in Failed, TimedOut or a transport error of the probe, Delete returns an
\* error, not success.
C11_DeleteSurfacesErrors ==
  /\ (seen.disassociate = "Remote")
       => /\ pc = "idle"
          /\ result = [op |-> "Delete", kind |-> "DisassociateError"]
          /\ calls.probe = 0
          /\ calls.describe = 0
  /\ (pc = "idle" /\ w.kind = "delete" /\ w.state \in {"Failed", "TimedOut", "ProbeError"})
       => /\ result.op = "Delete"
          /\ result.kind = WaitError(w.state)
          /\ result.kind \in ErrorKinds

C11_Witness ==
  /\ Returned("Delete") /\ seen.disassociate = "Remote"
  /\ result.kind = "DisassociateError" /\ calls.disassociate = 1

\* The attributes of the resource data that the caller keeps.
Stored(dd) == [dd EXCEPT !.isNew = FALSE]

\* C12: Read and Delete of an id that does not split into exactly two
\* non-empty segments fail with MalformedIdentity, issue no remote call, and
\* leave the remote side, the identity and the attributes as they were.
C12_MalformedIdentityFailsFirst ==
  [][((Read \/ Delete) /\ ~WellFormed(d.id))
       => /\ result'.kind = "MalformedIdentity"
          /\ calls' = NoCalls
          /\ remote' = remote
          /\ Stored(d') = Stored(d)
          /\ pc' = "idle"]_vars

C12_Witness ==
  /\ Returned("Delete") /\ result.kind = "MalformedIdentity"
  /\ d.id = <<"a", Sep, "s", Sep, "s">> /\ calls = NoCalls

HasSep(str) == \E i \in 1..Len(str) : str[i] = Sep

\* C13: for non-empty a and b without the delimiter, Decode(Encode(a, b))
\* succeeds and returns (a, b).
C13_DecodeEncodeRoundTrip ==
  (/\ pc = "decoded"
   /\ req.domainName # Empty /\ req.serviceArn # Empty
   /\ ~HasSep(req.domainName) /\ ~HasSep(req.serviceArn))
    => /\ result = [op |-> "Decode", kind |-> "ok"]
       /\ out.domainName = req.domainName
       /\ out.serviceArn = req.serviceArn

C13_Witness ==
  /\ pc = "decoded"
  /\ req.domainName = <<"a", "s">> /\ req.serviceArn = <<"s">>
  /\ d.id = <<"a", "s", Sep, "s">>
  /\ result.kind = "ok" /\ out.domainName = <<"a", "s">>

\* Whether the probe answer o ends a wait of the given kind.
Ends(o, kind) ==
  o.err # Nil \/ o.obs \in SuccessSet(kind) \cup FailureSet(kind)

\* The position in the probe sequence of the first answer that ends the
\* wait; 0 if there is none.
FirstEnd ==
  LET ends == {i \in 1..Len(script) : Ends(script[i], w.kind)} IN
  IF ends = {} THEN 0 ELSE CHOOSE i \in ends : \A j \in ends : i <= j

\* The i-th probe is issued no later than the deadline.
InTime(i) == (i - 1) * w.poll <= w.deadline

\* C14: the wait returns at the first observation in the success or the
\* failure set, within the deadline: Succeeded or Failed accordingly, naming
\* that observation, after as many probes as its position in the sequence.
C14_ReturnsAtFirstTerminalObservation ==
  LET i == FirstEnd IN
  (i > 0 /\ InTime(i) /\ script[i].err = Nil)
    => /\ w.probes <= i
       /\ (w.probes < i) = (pc = "wait")
       /\ (pc = "waited")
            => /\ w.probes = i
               /\ calls.probe = i
               /\ w.last = script[i].obs
               /\ w.state = IF script[i].obs \in SuccessSet(w.kind)
                            THEN "Succeeded" ELSE "Failed"

C14_Witness ==
  /\ pc = "waited" /\ w.kind = "create" /\ w.state = "Succeeded"
  /\ script = <<[obs |-> "pending-creation", err |-> Nil],
                [obs |-> "pending-creation", err |-> Nil],
                [obs |-> "active", err |-> Nil]>>
  /\ w.probes = 3

\* C15: a probe that fails with a transport error ends the wait at once as
\* ProbeError: after as many probes as its position in the sequence, before
\* the deadline, and not as Succeeded, Failed or TimedOut.
C15_ProbeErrorPropagates ==
  LET i == FirstEnd IN
  (i > 0 /\ InTime(i) /\ script[i].err = "Remote")
    => /\ w.probes <= i
       /\ (w.probes < i) = (pc = "wait")
       /\ (pc = "waited")
            => /\ w.probes = i
               /\ calls.probe = i
               /\ w.last = "Remote"
               /\ w.state = "ProbeError"
               /\ w.elapsed = (i - 1) * w.poll

C15_Witness ==
  /\ pc = "waited" /\ w.state = "ProbeError" /\ w.probes = 2
  /\ script[1] = [obs |-> "pending-deletion", err |-> Nil]
  /\ script[2] = [obs |-> Nil, err |-> "Remote"]
  /\ w.elapsed < w.deadline

\* No answer of the probe sequence given within the deadline ends the wait.
NeverEnds == \A i \in 1..Len(script) : InTime(i) => ~Ends(script[i], w.kind)

C18_HandlersReturn ==
  /\ (w.state = "Polling") ~> (w.state \in WaiterTerminal)
  /\ (pc # "idle") ~> (pc = "idle")

C18_Witness ==
  /\ Returned("Create") /\ result.kind = "WaitTimedOut"
  /\ w.state = "TimedOut" /\ w.last = "pending-creation"
  /\ w.probes = (Deadline \div PollInterval) + 1

\* The cap on the probe counter is never what stops a wait.
ProbeCapUnused == (pc \in {"create_wait", "delete_wait"}) => calls.probe < ProbeCap

\* C19: every Read, whatever Describe answers, leaves dnsTarget as it was;
\* a value is written to dnsTarget only by Create, from the answer of
\* Associate.
C19_OnlyCreateWritesDnsTarget ==
  /\ [][(Read \/ CreateRead) => d'.dns_target = d.dns_target]_vars
  /\ [][(d'.dns_target # d.dns_target /\ d'.dns_target # Nil)
         => /\ calls'.associate = 1
            /\ seen'.associate = "accepted"
            /\ d'.dns_target = out'.dnsTarget
            /\ pc = "idle" /\ d.id = Empty]_vars
  /\ [](pc = "create_read" => d.dns_target = out.dnsTarget)

C19_Witness ==
  /\ Returned("Read") /\ result.kind = "ok"
  /\ d.dns_target = "t2" /\ d.status = "active"

\* C20: Delete returns success only when absence was observed in that
\* invocation: Disassociate answered NotFoundError, or the last probe of the
\* deletion wait observed absence or failed with NotFoundError.
C20_DeleteSuccessOnlyAfterAbsence ==
  (Returned("Delete") /\ result.kind = "ok")
    => \/ (seen.disassociate = "NotFound" /\ calls.probe = 0)
       \/ /\ seen.disassociate = "accepted"
          /\ w.kind = "delete"
          /\ calls.probe >= 1
          /\ w.last \in {Absent, "NotFound"}

C20_Witness ==
  /\ Returned("Delete") /\ result.kind = "ok"
  /\ seen.disassociate = "accepted"
  /\ w.probes = 2 /\ w.last = Absent /\ w.state = "Succeeded"

====
